---- MODULE Spec2Model ----
(***************************************************************************)
(* Model of update_styles.py: a linear script that reads index.html,       *)
(* searches it for the first "<style>" and the first "</style>", and, when *)
(* both are found, overwrites the file with the text before the start      *)
(* marker, a fixed <link> tag and the text after the end marker.           *)
(*                                                                         *)
(* Text is modelled as a sequence of one-character strings, so that the    *)
(* substring search and the slicing are computed character by character.   *)
(* Indices are 0-based as in Python; -1 is "not found".                    *)
(***************************************************************************)
EXTENDS Integers, Sequences, FiniteSets

VARIABLES
    file,        \* the text stored on disk at file_path
    fs,          \* condition of the file on the filesystem
    pc,          \* position of the script
    content,     \* the script's variable content
    start_index, \* the script's variable start_index
    end_index,   \* the script's variable end_index
    new_content, \* the script's variable new_content
    rhandle,     \* handle of open(file_path, 'r'): "none", "open", "closed"
    whandle,     \* handle of open(file_path, 'w'): "none", "open", "closed"
    out,         \* lines printed by the current run
    errAt,       \* statement at which an exception left the script, or "none"
    file0,       \* history: text on disk when the current run started
    doc0,        \* history: text on disk before the first run
    runs         \* history: number of runs started

vars == << file, fs, pc, content, start_index, end_index, new_content,
           rhandle, whandle, out, errAt, file0, doc0, runs >>

-----------------------------------------------------------------------------
(* Bounds of the model *)

MaxPieces == 3

MaxRuns == 2

-----------------------------------------------------------------------------
(* Literals of the script *)

start_tag == << "<", "s", "t", "y", "l", "e", ">" >>

end_tag == << "<", "/", "s", "t", "y", "l", "e", ">" >>

replacement ==
    << "<", "l", "i", "n", "k", " ", "r", "e", "l", "=", "\"",
       "s", "t", "y", "l", "e", "s", "h", "e", "e", "t", "\"",
       " ", "h", "r", "e", "f", "=", "\"", "c", "s", "s", "/",
       "s", "t", "y", "l", "e", "s", ".", "c", "s", "s", "\"",
       ">" >>

SuccessMsg == "Successfully replaced style block with link."

NotFoundMsg == "Could not find style block."

-----------------------------------------------------------------------------
(* Input documents: concatenations of at most MaxPieces pieces.  The pieces *)
(* are the two markers and three fragments that are plain text on their    *)
(* own and from which either marker can be assembled across piece          *)
(* boundaries ("<" "style>" and "<" "/" "style>").                         *)

Pieces ==
    { start_tag, end_tag, << "<" >>, << "/" >>,
      << "s", "t", "y", "l", "e", ">" >> }

RECURSIVE Flatten(_)
Flatten(ps) == IF ps = << >> THEN << >> ELSE Head(ps) \o Flatten(Tail(ps))

Documents ==
    { Flatten(ps) : ps \in UNION { [1..n -> Pieces] : n \in 0..MaxPieces } }

FsStates == { "ok", "missing", "unreadable", "undecodable", "readonly" }

-----------------------------------------------------------------------------
(* Python string operations *)

\* s[a:b] for 0 <= a, with b clipped to len(s)
Slice(s, a, b) == SubSeq(s, a + 1, IF b > Len(s) THEN Len(s) ELSE b)

\* s[a:]
SliceFrom(s, a) == SubSeq(s, a + 1, Len(s))

RECURSIVE FindFrom(_, _, _)
FindFrom(s, sub, k) ==
    IF k + Len(sub) > Len(s) THEN -1
    ELSE IF SubSeq(s, k + 1, k + Len(sub)) = sub THEN k
    ELSE FindFrom(s, sub, k + 1)

\* s.find(sub): lowest index at which sub occurs in s, or -1
find(s, sub) == FindFrom(s, sub, 0)

\* faulty variant: anchors the search for the end marker at the start marker
FindEndAnchored(c, si) == FindFrom(c, end_tag, IF si < 0 THEN 0 ELSE si)

\* line 12: end_index = content.find(end_tag); si is start_index, unused
FindEnd(c, si) == find(c, end_tag)

\* faulty variant: only tests end_index
FoundEndOnly(si, ei) == ei # -1

\* faulty variant: only tests start_index
FoundStartOnly(si, ei) == si # -1

\* line 14: start_index != -1 and end_index != -1
Found(si, ei) == si # -1 /\ ei # -1

\* faulty variant: forgets to skip the end marker
NewContentKeepsEnd(c, si, ei) ==
    Slice(c, 0, si) \o replacement \o SliceFrom(c, ei)

\* faulty variant: skips len(start_tag) instead of len(end_tag)
NewContentShortSkip(c, si, ei) ==
    Slice(c, 0, si) \o replacement \o SliceFrom(c, ei + Len(start_tag))

\* line 15
NewContent(c, si, ei) ==
    Slice(c, 0, si) \o replacement \o SliceFrom(c, ei + Len(end_tag))

\* faulty variant: opens the file in a mode that does not truncate
KeepOnOpen(old) == old

\* line 17: open(file_path, 'w') truncates the file
TruncateOnOpen(old) == << >>

\* faulty variant: leaves the handle open when the block is left by an exception
ExitLeavesOpen(h) == h

\* lines 5 and 17: leaving a with block closes the handle, also on an exception
WithExit(h) == "closed"

-----------------------------------------------------------------------------
(* The script, statement by statement *)

Init ==
    /\ file \in Documents
    /\ fs \in FsStates
    /\ pc = "open_r"
    /\ content = << >>
    /\ start_index = -1
    /\ end_index = -1
    /\ new_content = << >>
    /\ rhandle = "none"
    /\ whandle = "none"
    /\ out = << >>
    /\ errAt = "none"
    /\ file0 = file
    /\ doc0 = file
    /\ runs = 1

\* line 5: open(file_path, 'r', encoding='utf-8')
OpenRead ==
    /\ pc = "open_r"
    /\ fs \notin { "missing", "unreadable" }
    /\ rhandle' = "open"
    /\ pc' = "read"
    /\ UNCHANGED << file, fs, content, start_index, end_index, new_content,
                    whandle, out, errAt, file0, doc0, runs >>

\* faulty variant: catches the exception and goes on with an empty document
OpenReadFailCaught ==
    /\ pc = "open_r"
    /\ fs \in { "missing", "unreadable" }
    /\ pc' = "find"
    /\ UNCHANGED << file, fs, content, start_index, end_index, new_content,
                    rhandle, whandle, out, errAt, file0, doc0, runs >>

\* line 5 raising FileNotFoundError or PermissionError
OpenReadFail ==
    /\ pc = "open_r"
    /\ fs \in { "missing", "unreadable" }
    /\ pc' = "error"
    /\ errAt' = "open_r"
    /\ UNCHANGED << file, fs, content, start_index, end_index, new_content,
                    rhandle, whandle, out, file0, doc0, runs >>

\* line 6: content = f.read()
Read ==
    /\ pc = "read"
    /\ fs # "undecodable"
    /\ content' = file
    /\ pc' = "close_r"
    /\ UNCHANGED << file, fs, start_index, end_index, new_content,
                    rhandle, whandle, out, errAt, file0, doc0, runs >>

\* line 6 raising UnicodeDecodeError; the with block is left by the exception
ReadFail ==
    /\ pc = "read"
    /\ fs = "undecodable"
    /\ rhandle' = WithExit(rhandle)
    /\ pc' = "error"
    /\ errAt' = "read"
    /\ UNCHANGED << file, fs, content, start_index, end_index, new_content,
                    whandle, out, file0, doc0, runs >>

\* end of the with block of line 5
CloseRead ==
    /\ pc = "close_r"
    /\ rhandle' = WithExit(rhandle)
    /\ pc' = "find"
    /\ UNCHANGED << file, fs, content, start_index, end_index, new_content,
                    whandle, out, errAt, file0, doc0, runs >>

\* lines 11-12
FindMarkers ==
    /\ pc = "find"
    /\ start_index' = find(content, start_tag)
    /\ end_index' = FindEnd(content, find(content, start_tag))
    /\ pc' = "test"
    /\ UNCHANGED << file, fs, content, new_content, rhandle, whandle, out,
                    errAt, file0, doc0, runs >>

\* lines 14-15: the test succeeds
BuildNewContent ==
    /\ pc = "test"
    /\ Found(start_index, end_index)
    /\ new_content' = NewContent(content, start_index, end_index)
    /\ pc' = "open_w"
    /\ UNCHANGED << file, fs, content, start_index, end_index, rhandle,
                    whandle, out, errAt, file0, doc0, runs >>

\* lines 14, 20-21: the test fails
PrintNotFound ==
    /\ pc = "test"
    /\ ~Found(start_index, end_index)
    /\ out' = Append(out, NotFoundMsg)
    /\ pc' = "done"
    /\ UNCHANGED << file, fs, content, start_index, end_index, new_content,
                    rhandle, whandle, errAt, file0, doc0, runs >>

\* line 17: open(file_path, 'w', encoding='utf-8')
OpenWrite ==
    /\ pc = "open_w"
    /\ fs # "readonly"
    /\ file' = TruncateOnOpen(file)
    /\ whandle' = "open"
    /\ pc' = "write"
    /\ UNCHANGED << fs, content, start_index, end_index, new_content,
                    rhandle, out, errAt, file0, doc0, runs >>

\* line 17 raising PermissionError: the file is not touched
OpenWriteFail ==
    /\ pc = "open_w"
    /\ fs = "readonly"
    /\ pc' = "error"
    /\ errAt' = "open_w"
    /\ UNCHANGED << file, fs, content, start_index, end_index, new_content,
                    rhandle, whandle, out, file0, doc0, runs >>

\* line 18: f.write(new_content), all of it reaching the disk
Write ==
    /\ pc = "write"
    /\ file' = file \o new_content
    /\ pc' = "close_w"
    /\ UNCHANGED << fs, content, start_index, end_index, new_content,
                    rhandle, whandle, out, errAt, file0, doc0, runs >>

\* line 18 raising OSError after n characters reached the disk; the with
\* block is left by the exception
WriteFail ==
    /\ pc = "write"
    /\ \E n \in 0..(Len(new_content) - 1) :
          file' = file \o Slice(new_content, 0, n)
    /\ whandle' = WithExit(whandle)
    /\ pc' = "error"
    /\ errAt' = "write"
    /\ UNCHANGED << fs, content, start_index, end_index, new_content,
                    rhandle, out, file0, doc0, runs >>

\* the process is killed during line 18 after n characters reached the disk
Crash ==
    /\ pc = "write"
    /\ \E n \in 0..(Len(new_content) - 1) :
          file' = file \o Slice(new_content, 0, n)
    /\ pc' = "crashed"
    /\ UNCHANGED << fs, content, start_index, end_index, new_content,
                    rhandle, whandle, out, errAt, file0, doc0, runs >>

\* end of the with block of line 17
CloseWrite ==
    /\ pc = "close_w"
    /\ whandle' = WithExit(whandle)
    /\ pc' = "print_ok"
    /\ UNCHANGED << file, fs, content, start_index, end_index, new_content,
                    rhandle, out, errAt, file0, doc0, runs >>

\* faulty variant: has lost the else: line 21 runs after line 19
PrintSuccessFallsThrough ==
    /\ pc = "print_ok"
    /\ out' = Append(Append(out, SuccessMsg), NotFoundMsg)
    /\ pc' = "done"
    /\ UNCHANGED << file, fs, content, start_index, end_index, new_content,
                    rhandle, whandle, errAt, file0, doc0, runs >>

\* line 19
PrintSuccess ==
    /\ pc = "print_ok"
    /\ out' = Append(out, SuccessMsg)
    /\ pc' = "done"
    /\ UNCHANGED << file, fs, content, start_index, end_index, new_content,
                    rhandle, whandle, errAt, file0, doc0, runs >>

\* the script is started again on the file a completed run left behind
Rerun ==
    /\ pc = "done"
    /\ runs < MaxRuns
    /\ runs' = runs + 1
    /\ file0' = file
    /\ pc' = "open_r"
    /\ content' = << >>
    /\ start_index' = -1
    /\ end_index' = -1
    /\ new_content' = << >>
    /\ rhandle' = "none"
    /\ whandle' = "none"
    /\ out' = << >>
    /\ errAt' = "none"
    /\ UNCHANGED << file, fs, doc0 >>

Next ==
    \/ OpenRead
    \/ OpenReadFail
    \/ Read
    \/ ReadFail
    \/ CloseRead
    \/ FindMarkers
    \/ BuildNewContent
    \/ PrintNotFound
    \/ OpenWrite
    \/ OpenWriteFail
    \/ Write
    \/ WriteFail
    \/ Crash
    \/ CloseWrite
    \/ PrintSuccess
    \/ Rerun

Spec == Init /\ [][Next]_vars

\* the interpreter always takes the next statement
FairSpec == Spec /\ WF_vars(Next)

-----------------------------------------------------------------------------
(* Vocabulary of the properties, defined without the script's own search *)

\* the 0-based positions at which sub occurs in s
Occurs(s, sub) ==
    { k \in 0..(Len(s) - Len(sub)) : SubSeq(s, k + 1, k + Len(sub)) = sub }

Contains(s, sub) == Occurs(s, sub) # {}

First(s, sub) ==
    CHOOSE k \in Occurs(s, sub) : \A m \in Occurs(s, sub) : k <= m

\* exactly one start marker, exactly one end marker, start before end
WellFormed(d) ==
    /\ Cardinality(Occurs(d, start_tag)) = 1
    /\ Cardinality(Occurs(d, end_tag)) = 1
    /\ First(d, start_tag) < First(d, end_tag)

\* both markers occur and the first end marker precedes the first start marker
Reversed(d) ==
    /\ Contains(d, start_tag)
    /\ Contains(d, end_tag)
    /\ First(d, end_tag) < First(d, start_tag)

Ended == pc \in { "done", "error", "crashed" }

-----------------------------------------------------------------------------
(* C1: when the document a run starts from holds exactly one "<style>" and *)
(* exactly one "</style>", start before end, the completed run reports     *)
(* success and the file is the text before the start marker, the link tag, *)
(* and the text after the end marker; no marker is left in it.             *)
C1_OneBlockReplaced ==
    (pc = "done" /\ WellFormed(file0)) =>
        LET i == First(file0, start_tag)
            j == First(file0, end_tag)
        IN  /\ out = << SuccessMsg >>
            /\ file = SubSeq(file0, 1, i) \o replacement
                        \o SubSeq(file0, j + 9, Len(file0))
            /\ ~Contains(file, start_tag)
            /\ ~Contains(file, end_tag)

C1_Witness ==
    /\ pc = "done"
    /\ WellFormed(file0)
    /\ First(file0, start_tag) > 0
    /\ out = << SuccessMsg >>

(* C2: when the document a run starts from has no "<style>", the run never *)
(* opens the file for writing, the file keeps its content, and a completed *)
(* run has printed the not-found line and nothing else.                    *)
C2_NoStartMarker ==
    ~Contains(file0, start_tag) =>
        /\ whandle = "none"
        /\ file = file0
        /\ pc = "done" => out = << NotFoundMsg >>

C2_Witness ==
    /\ pc = "done"
    /\ runs = 1
    /\ ~Contains(file0, start_tag)
    /\ Contains(file0, end_tag)
    /\ out = << NotFoundMsg >>

(* C3: when the document a run starts from has no "</style>", the run      *)
(* never opens the file for writing, the file keeps its content, and a     *)
(* completed run has printed the not-found line and nothing else.          *)
C3_NoEndMarker ==
    ~Contains(file0, end_tag) =>
        /\ whandle = "none"
        /\ file = file0
        /\ pc = "done" => out = << NotFoundMsg >>

C3_Witness ==
    /\ pc = "done"
    /\ runs = 1
    /\ Contains(file0, start_tag)
    /\ ~Contains(file0, end_tag)
    /\ out = << NotFoundMsg >>

(* C4, as claimed: after any successful run the written document contains  *)
(* neither "<style>" nor "</style>".                                       *)
C4_AnySuccessRemovesMarkers ==
    (pc = "done" /\ out = << SuccessMsg >>) =>
        /\ ~Contains(file, start_tag)
        /\ ~Contains(file, end_tag)

(* C4, amended: when the original document holds exactly one "<style>" and *)
(* exactly one "</style>", start before end, every run after the first     *)
(* starts from a document without markers, does not open the file for      *)
(* writing, leaves it unchanged and, once completed, has printed the       *)
(* not-found line.                                                         *)
C4_SecondRunFindsNothing ==
    (runs >= 2 /\ WellFormed(doc0)) =>
        /\ ~Contains(file0, start_tag)
        /\ ~Contains(file0, end_tag)
        /\ whandle = "none"
        /\ file = file0
        /\ pc = "done" => out = << NotFoundMsg >>

C4_Witness ==
    /\ runs = 2
    /\ WellFormed(doc0)
    /\ pc = "done"
    /\ out = << NotFoundMsg >>

(* C5: whenever both markers occur in the document a run starts from, in   *)
(* any order and any number, the completed run has overwritten the file    *)
(* with content[0..i) + link tag + content[j+8..), i and j being the first *)
(* "<style>" and the first "</style>" of the whole document.               *)
C5_BlindIndexArithmetic ==
    (pc = "done" /\ Contains(file0, start_tag) /\ Contains(file0, end_tag)) =>
        /\ out = << SuccessMsg >>
        /\ file = Slice(file0, 0, First(file0, start_tag)) \o replacement
                    \o SliceFrom(file0, First(file0, end_tag) + 8)

C5_Witness ==
    /\ pc = "done"
    /\ Reversed(file0)
    /\ Cardinality(Occurs(file0, end_tag)) >= 2
    /\ out = << SuccessMsg >>

(* C6: a run prints at most one line and only as its last step; a          *)
(* completed run has printed exactly one of the two status lines; the      *)
(* success line is printed exactly when the file was opened for writing,   *)
(* and then the write handle is closed and the file holds new_content.     *)
(* Every run that has started comes to an end.                             *)
C6_Safety ==
    /\ Len(out) <= 1
    /\ pc # "done" => out = << >>
    /\ pc = "done" => out \in { << SuccessMsg >>, << NotFoundMsg >> }
    /\ pc = "done" => (out = << SuccessMsg >> <=> whandle # "none")
    /\ out = << SuccessMsg >> => whandle = "closed" /\ file = new_content

C6_OneStatusLine == [] C6_Safety /\ ((pc = "open_r") ~> Ended)

C6_Witness ==
    /\ pc = "done"
    /\ out = << SuccessMsg >>
    /\ whandle = "closed"

(* C7: a filesystem error ends the run where it is raised: nothing has     *)
(* been printed and no further step is taken.  When opening or reading     *)
(* fails, the write handle was never opened and the file is unchanged.     *)
C7_ErrorNotRecovered ==
    /\ fs \in { "missing", "unreadable", "undecodable" } =>
          /\ pc \in { "open_r", "read", "error" }
          /\ whandle = "none"
          /\ file = file0
    /\ pc = "error" =>
          /\ errAt # "none"
          /\ out = << >>
          /\ ~ENABLED Next
          /\ errAt \in { "open_r", "read", "open_w" } =>
                whandle = "none" /\ file = file0

C7_Witness ==
    /\ pc = "error"
    /\ errAt = "read"
    /\ file = file0
    /\ Contains(file0, start_tag)
    /\ Contains(file0, end_tag)

(* C8: the two handles are never open together; the write handle is opened *)
(* only after the read handle was closed with the whole file in content;   *)
(* no handle is open once the run has completed or ended with an error.    *)
C8_HandlesScoped ==
    /\ ~(rhandle = "open" /\ whandle = "open")
    /\ whandle # "none" => rhandle = "closed" /\ content = file0
    /\ pc \in { "done", "error" } => rhandle # "open" /\ whandle # "open"

C8_Witness ==
    /\ pc = "error"
    /\ errAt = "write"
    /\ rhandle = "closed"
    /\ whandle = "closed"

(* C9: once the file is open for writing and nothing is written yet, it is *)
(* empty; a crash during the write leaves a proper prefix of the new       *)
(* document in the file, which is neither the original nor the new one.    *)
C9_CrashCorrupts ==
    /\ pc = "write" => file = << >> /\ file0 # << >>
    /\ pc = "crashed" =>
          /\ Len(file) < Len(new_content)
          /\ file = SubSeq(new_content, 1, Len(file))
          /\ file # file0
          /\ file # new_content

C9_Witness ==
    /\ pc = "crashed"
    /\ Len(file) > Len(replacement)

(* C10: when the first "</style>" precedes the first "<style>", the        *)
(* completed run reports success; the text between the two markers occurs  *)
(* twice in the output, around the link tag; the first "</style>" still    *)
(* precedes the first "<style>"; the file is longer than before.  Started  *)
(* on such a document, no run ever prints the not-found line.              *)
C10_ReversedMarkersGrow ==
    /\ (pc = "done" /\ Reversed(file0)) =>
          LET i == First(file0, start_tag)
              j == First(file0, end_tag)
              between == SubSeq(file0, j + 9, i)
          IN  /\ out = << SuccessMsg >>
              /\ file = SubSeq(file0, 1, j + 8) \o between \o replacement
                          \o between \o SubSeq(file0, i + 1, Len(file0))
              /\ Reversed(file)
              /\ Len(file) > Len(file0)
    /\ Reversed(doc0) => out # << NotFoundMsg >>

C10_Witness ==
    /\ runs = 2
    /\ pc = "done"
    /\ Reversed(doc0)
    /\ out = << SuccessMsg >>
    /\ Len(file) > Len(file0)
    /\ Len(file0) > Len(doc0)

====
